---- MODULE Spec2Model ----
(***************************************************************************)
(* PaongDev deployer: the deploy handler (handleDeployRequest in           *)
(* src/index.js, and its standalone copy in src/unnamed/part_000) and the  *)
(* field sanitizer sanitizeInput.                                          *)
(*                                                                         *)
(* A text is a sequence of one-character strings.  A field value is what   *)
(* formidable hands over: an array (sequence) of texts.                    *)
(***************************************************************************)
EXTENDS Naturals, Sequences, FiniteSets, TLC

VARIABLES
    req,            \* r -> the incoming request (method, multipart payload)
    pc,             \* r -> position of the handler of request r
    sanitizedFields,\* r -> the mapping sanitizeInput returned (empty before)
    filePromises,   \* r -> the non-directory entries, in forEach order
    extr,           \* r -> state of each promise of filePromises
    extractedFiles, \* r -> result of Promise.all(filePromises)
    idx,            \* r -> number of loop iterations of the publish loop completed
    calls,          \* r -> log of createOrUpdateFileContents calls issued
    response,       \* r -> the Response returned (NoResponse until then)
    did,            \* r -> the processing steps the handler has started
    remote,         \* the hosting service: set of files it holds
    sanIn,          \* sanitizer run: the field mapping given to sanitizeInput
    sanOut,         \* sanitizer run: the mapping it returned
    sanPc,          \* sanitizer run: "ready" | "applied" | "off"
    visitors,       \* the rows of the visitors table
    today,          \* the calendar day of the clock (new Date())
    tReq,           \* t -> the page request that is tracked
    tPc,            \* t -> position of handleVisitorTracking for t
    tSince,         \* t -> the date given to the lookup query
    tRow,           \* t -> the row given to the insert
    botReq,         \* the request to the text-prompt proxy
    botPc,          \* v -> position of variant v of the proxy handler
    botResp,        \* v -> the Response variant v returned
    botCalled       \* v -> whether variant v called the model

vars == <<req, pc, sanitizedFields, filePromises, extr, extractedFiles, idx,
          calls, response, did, remote, sanIn, sanOut, sanPc,
          visitors, today, tReq, tPc, tSince, tRow,
          botReq, botPc, botResp, botCalled>>

deployVars == <<req, pc, sanitizedFields, filePromises, extr, extractedFiles,
                idx, calls, response, did, remote>>

sanVars == <<sanIn, sanOut, sanPc>>

trackVars == <<visitors, today, tReq, tPc, tSince, tRow>>

botVars == <<botReq, botPc, botResp, botCalled>>

-----------------------------------------------------------------------------
(* Bounds *)

MaxLen == 4         \* longest text given to the sanitizer run
MaxEntries == 3     \* most entries of an uploaded archive
MaxDay == 2         \* last calendar day the clock reaches

-----------------------------------------------------------------------------
(* Texts *)

Alphabet == {"<", ">", "/", "a"}

RECURSIVE TextsOfLen(_)
TextsOfLen(n) ==
    IF n = 0 THEN {<<>>}
    ELSE {Append(t, c) : t \in TextsOfLen(n - 1), c \in Alphabet}

Texts == UNION {TextsOfLen(n) : n \in 0..MaxLen}

\* String(array): Array.prototype.toString joins the elements with ","
RECURSIVE Join(_)
Join(arr) ==
    IF arr = <<>> THEN <<>>
    ELSE IF Len(arr) = 1 THEN arr[1]
    ELSE arr[1] \o <<",">> \o Join(Tail(arr))

\* String(fields[key])
StringOf(arr) == Join(arr)

-----------------------------------------------------------------------------
(* The regular expression /<\/?[^>]+(>|$)/g *)

\* [^>]+ : positions k..m of s are all different from ">"
NoGt(s, k, m) == \A j \in k..m : s[j] # ">"

\* The pattern without its "|$" alternative: /<\/?[^>]+>/
MatchEndsClosedOnly(s, i) ==
    IF s[i] # "<" THEN {}
    ELSE {e \in (i + 1)..Len(s) :
            \E k \in {i + 1} \cup (IF i + 1 <= Len(s) /\ s[i + 1] = "/" THEN {i + 2} ELSE {}) :
              \E m \in k..Len(s) :
                /\ NoGt(s, k, m)
                /\ (m + 1 <= Len(s) /\ s[m + 1] = ">" /\ e = m + 1)}

\* The positions at which a match starting at position i can end, following
\* the pattern piece by piece: "<", an optional "/", one or more characters
\* other than ">", then either ">" or the end of the input.  The character
\* class is greedy, so it runs up to the next ">" or to the end.
MatchEnds(s, i) ==
    IF s[i] # "<" THEN {}
    ELSE {e \in (i + 1)..Len(s) :
            \E k \in {i + 1} \cup (IF i + 1 <= Len(s) /\ s[i + 1] = "/" THEN {i + 2} ELSE {}) :
              \E m \in k..Len(s) :
                /\ NoGt(s, k, m)
                /\ \/ (m + 1 <= Len(s) /\ s[m + 1] = ">" /\ e = m + 1)
                   \/ (m = Len(s) /\ e = m)}

Max(S) == CHOOSE x \in S : \A y \in S : y <= x

\* String.prototype.replace(re, "") with the g flag: scan from the left, drop
\* each match, continue after it.
RECURSIVE ReplaceFrom(_, _)
ReplaceFrom(s, i) ==
    IF i > Len(s) THEN <<>>
    ELSE IF MatchEnds(s, i) # {} THEN ReplaceFrom(s, Max(MatchEnds(s, i)) + 1)
    ELSE <<s[i]>> \o ReplaceFrom(s, i + 1)

StripTags(s) == ReplaceFrom(s, 1)

\* A sanitizer that coerces to text and strips nothing
sanitizeInputNoStrip(fields) ==
    [key \in DOMAIN fields |-> StringOf(fields[key])]

\* sanitizeInput(fields): every own key, coerced to text and stripped
sanitizeInput(fields) ==
    [key \in DOMAIN fields |-> StripTags(StringOf(fields[key]))]

-----------------------------------------------------------------------------
(* Requests *)

Reqs == {"r1", "r2"}

\* The entries an uploaded archive is made of (paths are unique in an archive)
EntryPool ==
    { [path |-> "a.txt",     dir |-> FALSE, content |-> "hello"],
      [path |-> "dir/",      dir |-> TRUE,  content |-> ""],
      [path |-> "dir/b.txt", dir |-> FALSE, content |-> "world"],
      [path |-> "c.txt",     dir |-> FALSE, content |-> "!"] }

RECURSIVE ArchivesOfLen(_)
ArchivesOfLen(n) ==
    IF n = 0 THEN {<<>>}
    ELSE {Append(a, e) : a \in ArchivesOfLen(n - 1), e \in EntryPool} 

Injective(a) == \A i, j \in 1..Len(a) : a[i] = a[j] => i = j

Archives == {a \in UNION {ArchivesOfLen(n) : n \in 0..MaxEntries} : Injective(a)}

\* The uploaded blob: a valid container with its entries, or not a container
Blobs == {[valid |-> FALSE, entries |-> <<>>]}
           \cup {[valid |-> TRUE, entries |-> a] : a \in Archives}

\* files as formidable returns it: no "file" key when nothing was uploaded
FileMaps == {<<>>} \cup {[k \in {"file"} |-> <<b>>] : b \in Blobs}

\* Raw values of a text field: "", "a", "<a>", "<a>a", and a field sent twice
FieldValues ==
    { << <<>> >>, << <<"a">> >>, << <<"<", "a", ">">> >>,
      << <<"<", "a", ">", "a">> >>, << <<"a">>, <<"a">> >> }

FieldKeys == {"username", "repoName"}

FieldMaps == UNION {[K -> FieldValues] : K \in SUBSET FieldKeys}

Methods == {"POST", "GET"}

Requests ==
    [method : Methods, parseOk : BOOLEAN, fields : FieldMaps, files : FileMaps]

NoRequest == [method |-> "", parseOk |-> FALSE, fields |-> <<>>, files |-> <<>>]

NoResponse == [status |-> 0, body |-> "", error |-> ""]

\* JavaScript truthiness of obj[key] for a mapping to texts
Truthy(obj, key) == key \in DOMAIN obj /\ obj[key] # <<>>

\* Buffer.from(content).toString('base64')
Base64(content) == <<"base64", content>>

Committer == [name |-> "PaongDev", email |-> "paongdev@example.com"]

-----------------------------------------------------------------------------
(* Initial states *)

InitSanOff ==
    /\ sanIn = <<>>
    /\ sanOut = <<>>
    /\ sanPc = "off"

TReqs == {"t1", "t2", "t3"}

Variants == {"index", "standalone"}

NoPage == [forwardedFor |-> "", remoteAddress |-> ""]

NoBotResponse == [status |-> 0, body |-> <<>>]

InitTrackOff ==
    /\ visitors = {}
    /\ today = 1
    /\ tReq = [t \in TReqs |-> NoPage]
    /\ tPc = [t \in TReqs |-> "none"]
    /\ tSince = [t \in TReqs |-> 0]
    /\ tRow = [t \in TReqs |-> <<>>]

InitBotOff ==
    /\ botReq = [method |-> "", body |-> "", modelOk |-> FALSE]
    /\ botPc = [v \in Variants |-> "none"]
    /\ botResp = [v \in Variants |-> NoBotResponse]
    /\ botCalled = [v \in Variants |-> FALSE]

InitOthersOff == InitTrackOff /\ InitBotOff

InitHandlers(active) ==
    /\ \E f \in [active -> Requests] :
          req = [r \in Reqs |-> IF r \in active THEN f[r] ELSE NoRequest]
    /\ pc = [r \in Reqs |-> IF r \in active THEN "received" ELSE "none"]
    /\ sanitizedFields = [r \in Reqs |-> <<>>]
    /\ filePromises = [r \in Reqs |-> <<>>]
    /\ extr = [r \in Reqs |-> <<>>]
    /\ extractedFiles = [r \in Reqs |-> <<>>]
    /\ idx = [r \in Reqs |-> 0]
    /\ calls = [r \in Reqs |-> <<>>]
    /\ response = [r \in Reqs |-> NoResponse]
    /\ did = [r \in Reqs |-> {}]
    /\ remote = {}

\* One request arrives
Init == InitHandlers({"r1"}) /\ InitSanOff /\ InitOthersOff

-----------------------------------------------------------------------------
(* handleDeployRequest *)

Respond(r, resp) ==
    /\ response' = [response EXCEPT ![r] = resp]
    /\ pc' = [pc EXCEPT ![r] = "responded"]

\* A catch block answering with a client error
CatchResponseAsClientError(message) ==
    [status |-> 400, body |-> "Kesalahan deployment: ", error |-> message]

\* catch (e): new Response(`Kesalahan deployment: ${e.message}`, {status: 500})
CatchResponse(message) ==
    [status |-> 500, body |-> "Kesalahan deployment: ", error |-> message]

\* A handler without the method check
MethodAllowedAny(method) == TRUE

\* request.method === 'POST'
MethodAllowed(method) == method = "POST"

\* if (request.method !== 'POST') return new Response(..., {status: 405})
MethodNotAllowed(r) ==
    /\ pc[r] = "received"
    /\ ~MethodAllowed(req[r].method)
    /\ Respond(r, [status |-> 405, body |-> "Metode tidak diizinkan", error |-> ""])
    /\ UNCHANGED <<req, sanitizedFields, filePromises, extr, extractedFiles, idx,
                   calls, did, remote, sanVars, trackVars, botVars>>

\* const form = formidable({}); form.parse(request) is called and awaited
BeginParse(r) ==
    /\ pc[r] = "received"
    /\ MethodAllowed(req[r].method)
    /\ pc' = [pc EXCEPT ![r] = "parsing"]
    /\ did' = [did EXCEPT ![r] = @ \cup {"parse"}]
    /\ UNCHANGED <<req, sanitizedFields, filePromises, extr, extractedFiles, idx,
                   calls, response, remote, sanVars, trackVars, botVars>>

\* form.parse rejects: the await is outside the try block, so the handler's
\* own promise rejects and no Response is produced
ParseFail(r) ==
    /\ pc[r] = "parsing"
    /\ ~req[r].parseOk
    /\ pc' = [pc EXCEPT ![r] = "rejected"]
    /\ UNCHANGED <<req, sanitizedFields, filePromises, extr, extractedFiles, idx,
                   calls, response, did, remote, sanVars, trackVars, botVars>>

\* if (!username || !repoName || !files['file'][0]), evaluated left to right:
\* files['file'] is undefined when no file was uploaded, and indexing it throws
ValidationOutcome(san, files) ==
    IF ~Truthy(san, "username") \/ ~Truthy(san, "repoName") THEN "incomplete"
    ELSE IF "file" \notin DOMAIN files THEN "TypeError"
    ELSE IF files["file"] = <<>> THEN "incomplete"
    ELSE "ok"

\* form.parse resolves; the code then runs without suspending up to the first
\* await inside the try block: sanitize, validate, start loading the archive
ParseDone(r) ==
    /\ pc[r] = "parsing"
    /\ req[r].parseOk
    /\ LET san == sanitizeInput(req[r].fields)
           out == ValidationOutcome(san, req[r].files)
       IN  /\ sanitizedFields' = [sanitizedFields EXCEPT ![r] = san]
           /\ CASE out = "incomplete" ->
                     /\ Respond(r, [status |-> 400, body |-> "Data tidak lengkap.",
                                    error |-> ""])
                     /\ did' = [did EXCEPT ![r] = @ \cup {"sanitize"}]
                [] out = "TypeError" ->
                     /\ Respond(r, CatchResponse("TypeError"))
                     /\ did' = [did EXCEPT ![r] = @ \cup {"sanitize"}]
                [] out = "ok" ->
                     /\ pc' = [pc EXCEPT ![r] = "loading"]
                     /\ did' = [did EXCEPT ![r] = @ \cup {"sanitize", "load"}]
                     /\ UNCHANGED response
    /\ UNCHANGED <<req, filePromises, extr, extractedFiles, idx, calls, remote,
                   sanVars, trackVars, botVars>>

\* loadedZip.forEach(...): the entries that are not directories, in order
FileEntries(entries) == SelectSeq(entries, LAMBDA e : ~e.dir)

\* A loader that reads a blob that is no container as an empty archive
LoadSettleLenient(r) ==
    /\ pc[r] = "loading"
    /\ LET blob == req[r].files["file"][1]
           fps == FileEntries(blob.entries)
       IN  /\ filePromises' = [filePromises EXCEPT ![r] = fps]
           /\ extr' = [extr EXCEPT ![r] = [i \in 1..Len(fps) |-> "pending"]]
           /\ did' = [did EXCEPT ![r] =
                         IF fps = <<>> THEN @ ELSE @ \cup {"extract"}]
           /\ pc' = [pc EXCEPT ![r] =
                         IF fps = <<>> THEN "publishing" ELSE "extracting"]
           /\ UNCHANGED response
    /\ UNCHANGED <<req, sanitizedFields, extractedFiles, idx, calls, remote, sanVars, trackVars, botVars>>

\* zipFile.arrayBuffer() and zip.loadAsync(zipData) settle.  A blob that is
\* not a container makes loadAsync reject, which the catch block answers.
\* Otherwise forEach starts one extraction per file entry and Promise.all
\* is awaited (it is already fulfilled when there is no file entry).
LoadSettle(r) ==
    /\ pc[r] = "loading"
    /\ LET blob == req[r].files["file"][1]
           fps == FileEntries(blob.entries)
       IN  IF ~blob.valid
           THEN /\ Respond(r, CatchResponse("ArchiveFormatError"))
                /\ UNCHANGED <<filePromises, extr, did>>
           ELSE /\ filePromises' = [filePromises EXCEPT ![r] = fps]
                /\ extr' = [extr EXCEPT ![r] = [i \in 1..Len(fps) |-> "pending"]]
                /\ did' = [did EXCEPT ![r] =
                              IF fps = <<>> THEN @ ELSE @ \cup {"extract"}]
                /\ pc' = [pc EXCEPT ![r] =
                              IF fps = <<>> THEN "publishing" ELSE "extracting"]
                /\ UNCHANGED response
    /\ UNCHANGED <<req, sanitizedFields, extractedFiles, idx, calls, remote, sanVars, trackVars, botVars>>

\* Promise.allSettled instead: waits for all, never rejects
PromiseAllSettled(e) ==
    IF \E i \in DOMAIN e : e[i] = "pending" THEN "pending" ELSE "fulfilled"

\* A wait for all the promises that never notices a rejection
PromiseAllIgnoresRejection(e) ==
    IF \A i \in DOMAIN e : e[i] = "ok" THEN "fulfilled" ELSE "pending"

\* Promise.all over the extraction promises: rejected as soon as one of them
\* is, fulfilled once all of them are
PromiseAll(e) ==
    IF \E i \in DOMAIN e : e[i] = "failed" THEN "rejected"
    ELSE IF \A i \in DOMAIN e : e[i] = "ok" THEN "fulfilled"
    ELSE "pending"

\* .then(content => ({ path: relativePath, content: content }))
Extracted(entry) == [path |-> entry.path, content |-> entry.content]

\* A gathering of results in the order in which the promises settle
GatherInSettleOrder(cur, fps, i, e) ==
    IF e[i] = "ok" THEN Append(cur, Extracted(fps[i])) ELSE cur

\* The value of extractedFiles after promise i settled and left the promises
\* in state e: Promise.all yields the results in the order of filePromises,
\* whatever the order in which they settled
Gather(cur, fps, i, e) ==
    IF PromiseAll(e) = "fulfilled"
    THEN [j \in 1..Len(fps) |-> Extracted(fps[j])]
    ELSE cur

\* One zipEntry.async('string') promise settles.  While the handler awaits
\* Promise.all this may end the wait; after a rejection has already been
\* answered the remaining promises still settle, without effect.
ExtractSettle(r, i, outcome) ==
    /\ pc[r] \in {"extracting", "responded"}
    /\ i \in DOMAIN extr[r]
    /\ extr[r][i] = "pending"
    /\ LET e == [extr[r] EXCEPT ![i] = outcome]
       IN  /\ extr' = [extr EXCEPT ![r] = e]
           /\ IF pc[r] # "extracting"
              THEN UNCHANGED <<pc, response, extractedFiles>>
              ELSE /\ extractedFiles' = [extractedFiles EXCEPT ![r] =
                                           Gather(@, filePromises[r], i, e)]
                   /\ CASE PromiseAll(e) = "rejected" ->
                             Respond(r, CatchResponse("ExtractError"))
                        [] PromiseAll(e) = "fulfilled" ->
                             /\ pc' = [pc EXCEPT ![r] = "publishing"]
                             /\ UNCHANGED response
                        [] OTHER -> UNCHANGED <<pc, response>>
    /\ UNCHANGED <<req, sanitizedFields, filePromises, idx, calls, did, remote,
                   sanVars, trackVars, botVars>>

ExtractOk(r) == \E i \in DOMAIN extr[r] : ExtractSettle(r, i, "ok")

ExtractFail(r) == \E i \in DOMAIN extr[r] : ExtractSettle(r, i, "failed")

\* The fields kept in one place for all requests: a call takes the owner and
\* the repo that another request sanitized, when there is one
PublishArgsSharedFields(r, file) ==
    LET others == {o \in Reqs \ {r} : Truthy(sanitizedFields[o], "username")
                                       /\ Truthy(sanitizedFields[o], "repoName")}
        src == IF others = {} THEN r ELSE CHOOSE o \in others : TRUE
    IN  [ op        |-> "createOrUpdateFileContents",
          owner     |-> sanitizedFields[src]["username"],
          repo      |-> sanitizedFields[src]["repoName"],
          path      |-> file.path,
          message   |-> <<"Menambahkan file ", file.path, " via PaongDev">>,
          content   |-> Base64(file.content),
          committer |-> Committer,
          author    |-> Committer ]

\* The argument of octokit.repos.createOrUpdateFileContents for one file
PublishArgs(r, file) ==
    [ op        |-> "createOrUpdateFileContents",
      owner     |-> sanitizedFields[r]["username"],
      repo      |-> sanitizedFields[r]["repoName"],
      path      |-> file.path,
      message   |-> <<"Menambahkan file ", file.path, " via PaongDev">>,
      content   |-> Base64(file.content),
      committer |-> Committer,
      author    |-> Committer ]

Call(args, status) == [args |-> args, status |-> status]

\* A loop that issues the calls without awaiting each of them
PublishIssueNoAwait(r) ==
    /\ pc[r] \in {"publishing", "awaiting"}
    /\ Len(calls[r]) < Len(extractedFiles[r])
    /\ calls' = [calls EXCEPT ![r] =
                    Append(@, Call(PublishArgs(r, extractedFiles[r][Len(calls[r]) + 1]),
                                   "inflight"))]
    /\ pc' = [pc EXCEPT ![r] = "awaiting"]
    /\ UNCHANGED <<req, sanitizedFields, filePromises, extr, extractedFiles, idx,
                   response, did, remote, sanVars, trackVars, botVars>>

\* for (const file of extractedFiles) { await octokit...(...) }: the next
\* iteration issues its call
PublishIssue(r) ==
    /\ pc[r] = "publishing"
    /\ idx[r] < Len(extractedFiles[r])
    /\ calls' = [calls EXCEPT ![r] =
                    Append(@, Call(PublishArgs(r, extractedFiles[r][idx[r] + 1]),
                                   "inflight"))]
    /\ pc' = [pc EXCEPT ![r] = "awaiting"]
    /\ UNCHANGED <<req, sanitizedFields, filePromises, extr, extractedFiles, idx,
                   response, did, remote, sanVars, trackVars, botVars>>

\* The hosting service after it has written one file
Written(files, args) ==
    {f \in files : ~(f.owner = args.owner /\ f.repo = args.repo /\ f.path = args.path)}
      \cup {[owner |-> args.owner, repo |-> args.repo, path |-> args.path,
             content |-> args.content]}

InFlight(r) == {k \in DOMAIN calls[r] : calls[r][k].status = "inflight"}

\* The awaited call resolves: the file is on the remote, the loop goes on
PublishOk(r) ==
    /\ pc[r] = "awaiting"
    /\ \E k \in InFlight(r) :
         /\ calls' = [calls EXCEPT ![r][k].status = "ok"]
         /\ remote' = Written(remote, calls[r][k].args)
    /\ idx' = [idx EXCEPT ![r] = @ + 1]
    /\ pc' = [pc EXCEPT ![r] = "publishing"]
    /\ UNCHANGED <<req, sanitizedFields, filePromises, extr, extractedFiles,
                   response, did, sanVars, trackVars, botVars>>

\* A loop that catches the rejection inside its body and goes on
PublishFailSwallowed(r) ==
    /\ pc[r] = "awaiting"
    /\ \E k \in InFlight(r) :
         calls' = [calls EXCEPT ![r][k].status = "failed"]
    /\ idx' = [idx EXCEPT ![r] = @ + 1]
    /\ pc' = [pc EXCEPT ![r] = "publishing"]
    /\ UNCHANGED <<req, sanitizedFields, filePromises, extr, extractedFiles,
                   response, did, remote, sanVars, trackVars, botVars>>

\* The awaited call rejects: the throw leaves the loop for the catch block
PublishFail(r) ==
    /\ pc[r] = "awaiting"
    /\ \E k \in InFlight(r) :
         calls' = [calls EXCEPT ![r][k].status = "failed"]
    /\ Respond(r, CatchResponse("PublishError"))
    /\ UNCHANGED <<req, sanitizedFields, filePromises, extr, extractedFiles, idx,
                   did, remote, sanVars, trackVars, botVars>>

\* The loop is over: return new Response('Proyek berhasil di-deploy!', 200)
Finish(r) ==
    /\ pc[r] = "publishing"
    /\ idx[r] = Len(extractedFiles[r])
    /\ Respond(r, [status |-> 200, body |-> "Proyek berhasil di-deploy!",
                   error |-> ""])
    /\ UNCHANGED <<req, sanitizedFields, filePromises, extr, extractedFiles, idx,
                   calls, did, remote, sanVars, trackVars, botVars>>

Next ==
    \E r \in Reqs :
        \/ MethodNotAllowed(r)
        \/ BeginParse(r)
        \/ ParseFail(r)
        \/ ParseDone(r)
        \/ LoadSettle(r)
        \/ ExtractOk(r)
        \/ ExtractFail(r)
        \/ PublishIssue(r)
        \/ PublishOk(r)
        \/ PublishFail(r)
        \/ Finish(r)

Spec == Init /\ [][Next]_vars

-----------------------------------------------------------------------------
(* sanitizeInput on its own: every text up to MaxLen as a field value, alone *)
(* or as the first of two values of the field                               *)

SanInputs ==
    {[k \in {"username"} |-> <<t>>] : t \in Texts}
      \cup {[username |-> <<t, <<"a">> >>, repoName |-> << <<"<", "a">> >>] :
                t \in Texts}

InitSanitize ==
    /\ req = [r \in Reqs |-> NoRequest]
    /\ pc = [r \in Reqs |-> "none"]
    /\ sanitizedFields = [r \in Reqs |-> <<>>]
    /\ filePromises = [r \in Reqs |-> <<>>]
    /\ extr = [r \in Reqs |-> <<>>]
    /\ extractedFiles = [r \in Reqs |-> <<>>]
    /\ idx = [r \in Reqs |-> 0]
    /\ calls = [r \in Reqs |-> <<>>]
    /\ response = [r \in Reqs |-> NoResponse]
    /\ did = [r \in Reqs |-> {}]
    /\ remote = {}
    /\ sanIn \in SanInputs
    /\ sanOut = <<>>
    /\ sanPc = "ready"
    /\ InitOthersOff

Sanitize ==
    /\ sanPc = "ready"
    /\ sanOut' = sanitizeInput(sanIn)
    /\ sanPc' = "applied"
    /\ UNCHANGED <<sanIn, deployVars, trackVars, botVars>>

SpecSanitize == InitSanitize /\ [][Sanitize]_vars

-----------------------------------------------------------------------------
(* Properties of the deploy handler *)

Answered(r) == pc[r] = "responded"

\* The call log of a request, reduced to the paths
CallPaths(r) == [k \in DOMAIN calls[r] |-> calls[r][k].args.path]

HasFile(q) == "file" \in DOMAIN q.files

UploadedEntries(q) == IF HasFile(q) THEN q.files["file"][1].entries ELSE <<>>

InvalidBlob(q) == HasFile(q) /\ ~q.files["file"][1].valid

\* The paths of the entries that are not directories, in archive order
RECURSIVE NonDirPaths(_)
NonDirPaths(entries) ==
    IF entries = <<>> THEN <<>>
    ELSE (IF entries[1].dir THEN <<>> ELSE <<entries[1].path>>)
            \o NonDirPaths(Tail(entries))

IsPrefix(a, b) == Len(a) <= Len(b) /\ \A k \in 1..Len(a) : a[k] = b[k]

\* A field is missing: not sent, or sent as the empty text
MissingField(q, key) == key \notin DOMAIN q.fields \/ q.fields[key] = << <<>> >>

\* The text a field has once coerced and stripped of tags
Clean(q, key) == StripTags(StringOf(q.fields[key]))

\* The request passes the method check, the parse and the field check
Validated(q) ==
    /\ q.method = "POST"
    /\ q.parseOk
    /\ \A key \in FieldKeys : key \in DOMAIN q.fields /\ Clean(q, key) # <<>>
    /\ HasFile(q)

\* C1: a POST request that lacks username, repoName or the file is answered
\* with status 400, without any archive decompression or publish call.
C1_MissingInputIs400 ==
    \A r \in Reqs :
        (/\ Answered(r)
         /\ req[r].method = "POST"
         /\ \/ MissingField(req[r], "username")
            \/ MissingField(req[r], "repoName")
            \/ ~HasFile(req[r]))
        => /\ response[r].status = 400
           /\ "load" \notin did[r]
           /\ "extract" \notin did[r]
           /\ calls[r] = <<>>

\* C2 (state part): when the K-th call has failed, calls 1..K-1 have succeeded
\* and their files are on the remote, there is no call after the K-th, and
\* every call in the log is a create-or-update (nothing is undone).
C2_AtFailure ==
    \A r \in Reqs : \A k \in DOMAIN calls[r] :
        calls[r][k].status = "failed" =>
            /\ \A j \in 1..(k - 1) :
                  /\ calls[r][j].status = "ok"
                  /\ \E f \in remote :
                        /\ f.owner = calls[r][j].args.owner
                        /\ f.repo = calls[r][j].args.repo
                        /\ f.path = calls[r][j].args.path
            /\ Len(calls[r]) = k
            /\ \A j \in DOMAIN calls[r] :
                  calls[r][j].args.op = "createOrUpdateFileContents"

\* C2 (step part): once a call has failed, no step issues or changes a call
\* of that request or takes a file off the remote.
C2_AfterFailure ==
    \A r \in Reqs :
        (\E k \in DOMAIN calls[r] : calls[r][k].status = "failed")
            => (calls'[r] = calls[r] /\ remote \subseteq remote')

\* C2: if the K-th of N publish calls fails, calls 1..K-1 were issued and
\* succeeded before it, calls K+1..N are never issued afterwards, and nothing
\* published is rolled back.
C2_PartialPublish == []C2_AtFailure /\ [][C2_AfterFailure]_vars

C2_Witness ==
    \E r \in Reqs :
        /\ Len(extractedFiles[r]) = 3
        /\ Len(calls[r]) = 2
        /\ calls[r][1].status = "ok"
        /\ calls[r][2].status = "failed"
        /\ Answered(r)

\* C3: without a failure, the publish calls are exactly the non-directory
\* entries of the archive, one call each, with the entry's path, in archive
\* order; the response 200 with the fixed message comes only after the last
\* call has completed.
C3_CallsFollowEntries ==
    \A r \in Reqs :
        /\ (\A k \in DOMAIN calls[r] : calls[r][k].status # "failed")
              => IsPrefix(CallPaths(r), NonDirPaths(UploadedEntries(req[r])))
        /\ response[r].status = 200 =>
              /\ CallPaths(r) = NonDirPaths(UploadedEntries(req[r]))
              /\ \A k \in DOMAIN calls[r] : calls[r][k].status = "ok"
              /\ response[r].body = "Proyek berhasil di-deploy!"

C3_Witness ==
    \E r \in Reqs :
        /\ response[r].status = 200
        /\ Len(UploadedEntries(req[r])) = 3
        /\ \E i \in 1..3 : UploadedEntries(req[r])[i].dir
        /\ Len(calls[r]) = 2

\* C4: a blob that is no valid archive container makes the request end in
\* failure with no publish call at all.
C4_InvalidBlobFails ==
    \A r \in Reqs :
        InvalidBlob(req[r]) =>
            /\ calls[r] = <<>>
            /\ response[r].status # 200
            /\ pc[r] \notin {"extracting", "publishing", "awaiting"}

C4_Witness ==
    \E r \in Reqs :
        /\ InvalidBlob(req[r])
        /\ Answered(r)
        /\ response[r].error = "ArchiveFormatError"

\* C5 as stated: a blob that is no valid archive container is answered with
\* a client-error (4xx) status.
C5_InvalidBlobIs4xx ==
    \A r \in Reqs :
        (InvalidBlob(req[r]) /\ Answered(r))
            => (response[r].status >= 400 /\ response[r].status <= 499)

\* C5 amended: for a validated request whose blob is no valid archive
\* container, the response carries status 500 and the loader's message.
C5_InvalidBlobIs500 ==
    \A r \in Reqs :
        (InvalidBlob(req[r]) /\ Validated(req[r]) /\ Answered(r))
            => /\ response[r].status = 500
               /\ response[r].error = "ArchiveFormatError"

C5_Witness ==
    \E r \in Reqs :
        /\ InvalidBlob(req[r])
        /\ Validated(req[r])
        /\ Answered(r)
        /\ response[r].status = 500

\* C6: no publish call is issued before every non-directory entry has been
\* extracted; if an extraction fails, no publish call is issued at all.
C6_ExtractBeforePublish ==
    \A r \in Reqs :
        /\ calls[r] # <<>> =>
              /\ Len(extr[r]) = Len(NonDirPaths(UploadedEntries(req[r])))
              /\ \A i \in DOMAIN extr[r] : extr[r][i] = "ok"
        /\ (\E i \in DOMAIN extr[r] : extr[r][i] = "failed") =>
              /\ calls[r] = <<>>
              /\ pc[r] \notin {"publishing", "awaiting"}

C6_Witness ==
    \E r \in Reqs :
        /\ Answered(r)
        /\ \E i, j \in DOMAIN extr[r] : extr[r][i] = "ok" /\ extr[r][j] = "failed"
        /\ calls[r] = <<>>

\* C7: at most one publish call of a request is in flight: every call but
\* the last one issued has resolved.
C7_OneCallInFlight ==
    \A r \in Reqs : \A k \in DOMAIN calls[r] :
        k < Len(calls[r]) => calls[r][k].status # "inflight"

C7_Witness ==
    \E r \in Reqs :
        /\ Len(calls[r]) = 2
        /\ calls[r][1].status = "ok"
        /\ calls[r][2].status = "inflight"

\* C9: every publish call carries a non-empty owner and repo, which are the
\* tag-stripped username and repoName of its request; a request whose
\* username or repoName is empty after stripping is answered with 400 and
\* issues no call.
C9_OwnerRepoSanitized ==
    \A r \in Reqs :
        /\ \A k \in DOMAIN calls[r] :
              /\ calls[r][k].args.owner # <<>>
              /\ calls[r][k].args.repo # <<>>
              /\ calls[r][k].args.owner = Clean(req[r], "username")
              /\ calls[r][k].args.repo = Clean(req[r], "repoName")
        /\ (\E key \in FieldKeys :
               key \in DOMAIN req[r].fields /\ Clean(req[r], key) = <<>>)
              => /\ calls[r] = <<>>
                 /\ pc[r] \notin {"loading", "extracting", "publishing", "awaiting"}
                 /\ Answered(r) => response[r].status \in {400, 405}
                 /\ (Answered(r) /\ req[r].method = "POST") => response[r].status = 400

C9_Witness ==
    \E r \in Reqs :
        /\ calls[r] # <<>>
        /\ StringOf(req[r].fields["username"]) # calls[r][1].args.owner
        /\ calls[r][1].args.owner = <<"a">>

C9_WitnessRejected ==
    \E r \in Reqs :
        /\ Answered(r)
        /\ response[r].status = 400
        /\ "username" \in DOMAIN req[r].fields
        /\ req[r].fields["username"] = << <<"<", "a", ">">> >>
        /\ Truthy(sanitizedFields[r], "repoName")

\* C10: a request whose method is not POST is answered with 405 and nothing
\* else happens: no parsing, no sanitizing, no decompression, no call.
C10_NotPostIs405 ==
    \A r \in Reqs :
        (pc[r] \notin {"none", "received"} /\ req[r].method # "POST")
            => /\ Answered(r)
               /\ response[r].status = 405
               /\ did[r] = {}
               /\ sanitizedFields[r] = <<>>
               /\ calls[r] = <<>>

C10_Witness ==
    \E r \in Reqs :
        /\ req[r].method = "GET"
        /\ Answered(r)
        /\ response[r].status = 405
        /\ HasFile(req[r])

-----------------------------------------------------------------------------
(* Properties of sanitizeInput *)

\* No "<" of the text opens a match of the pattern: each "<" is the last
\* character or is followed by ">"
NoTagLeft(o) ==
    \A i \in 1..Len(o) : o[i] = "<" => (i = Len(o) \/ o[i + 1] = ">")

\* Position i opens a tag: "<" followed by a character other than ">"
OpensTag(s, i) == s[i] = "<" /\ i < Len(s) /\ s[i + 1] # ">"

\* Position e closes the tag opened at i: the first ">" after i
ClosesTag(s, i, e) == e > i /\ e <= Len(s) /\ s[e] = ">" /\ NoGt(s, i + 1, e - 1)

\* The positions inside a tag that is closed by ">"
ClosedTagPositions(s) ==
    {p \in 1..Len(s) :
        \E i \in 1..p : \E e \in p..Len(s) : OpensTag(s, i) /\ ClosesTag(s, i, e)}

\* The positions inside a tag, closed by ">" or running to the end of the text
TagPositions(s) ==
    {p \in 1..Len(s) : \E i \in 1..p : OpensTag(s, i) /\ NoGt(s, i + 1, p - 1)}

\* The text s without the characters at the positions in P
RECURSIVE Without(_, _, _)
Without(s, P, i) ==
    IF i > Len(s) THEN <<>>
    ELSE (IF i \in P THEN <<>> ELSE <<s[i]>>) \o Without(s, P, i + 1)

\* C8 as stated: no value of the output contains a tag, sanitizing again
\* changes nothing, and every character outside a <...> tag is kept in order,
\* the text after a "<" that is never closed included.
C8_KeepsTextOutsideClosedTags ==
    sanPc = "applied" =>
        \A key \in DOMAIN sanIn :
            LET s == StringOf(sanIn[key])
            IN  /\ NoTagLeft(sanOut[key])
                /\ sanitizeInput([k \in {key} |-> <<sanOut[key]>>])[key] = sanOut[key]
                /\ sanOut[key] = Without(s, ClosedTagPositions(s), 1)

\* C8 amended: no value of the output contains a tag, sanitizing again
\* changes nothing, and every character outside a tag is kept in order, where
\* a tag runs from a "<" followed by a character other than ">" to the next
\* ">" or, when there is none, to the end of the value: the text after a "<"
\* that is never closed is removed.
C8_KeepsTextOutsideTags ==
    sanPc = "applied" =>
        /\ DOMAIN sanOut = DOMAIN sanIn
        /\ \A key \in DOMAIN sanIn :
            LET s == StringOf(sanIn[key])
            IN  /\ NoTagLeft(sanOut[key])
                /\ sanitizeInput([k \in {key} |-> <<sanOut[key]>>])[key] = sanOut[key]
                /\ sanOut[key] = Without(s, TagPositions(s), 1)

C8_Witness ==
    /\ sanPc = "applied"
    /\ sanIn["username"] = << <<"a", "<", "a", "a">> >>
    /\ sanOut["username"] = <<"a">>

-----------------------------------------------------------------------------
(* Failures of the deploy handler *)

\* A failure has been raised while request r was handled: the multipart
\* parse rejected, the loader rejected the blob, an extraction or a publish
\* call rejected, or the field check threw
FailureRaised(r) ==
    \/ pc[r] = "rejected"
    \/ response[r].error # ""
    \/ \E i \in DOMAIN extr[r] : extr[r][i] = "failed"
    \/ \E k \in DOMAIN calls[r] : calls[r][k].status = "failed"

\* C11: every failure raised while a POST request is handled (in the
\* multipart parse, the archive load, an extraction or a publish call) is
\* answered with one response of status 500 that carries the failure's
\* message; no failure leaves the handler without a response.
C11_EveryFailureIs500 ==
    \A r \in Reqs :
        (req[r].method = "POST" /\ FailureRaised(r))
            => /\ Answered(r)
               /\ response[r].status = 500
               /\ response[r].error # ""

-----------------------------------------------------------------------------
(* Progress of the deploy handler *)

\* The event loop runs every continuation that is ready, and every pending
\* operation (parse, load, extraction, remote call) settles one way or the
\* other
Fairness ==
    \A r \in Reqs :
        /\ WF_vars(MethodNotAllowed(r))
        /\ WF_vars(BeginParse(r))
        /\ WF_vars(ParseFail(r) \/ ParseDone(r))
        /\ WF_vars(LoadSettle(r))
        /\ WF_vars(ExtractOk(r) \/ ExtractFail(r))
        /\ WF_vars(PublishIssue(r))
        /\ WF_vars(PublishOk(r) \/ PublishFail(r))
        /\ WF_vars(Finish(r))

SpecLive == Init /\ [][Next]_vars /\ Fairness

\* Done (200) or Failed (500)
Terminal(r) == Answered(r) /\ response[r].status \in {200, 500}

\* The handler of r has returned and this step leaves its position, its
\* response, its loop counter and its call log as they are
StaysTerminal(r) ==
    Answered(r) =>
        /\ pc'[r] = pc[r]
        /\ response'[r] = response[r]
        /\ idx'[r] = idx[r]
        /\ calls'[r] = calls[r]

\* C12: a validated POST request whose extractions and remote calls all
\* settle eventually reaches one terminal state, Done (200) or Failed (500);
\* from then on it issues no publish call and takes no further step.
C12_ReachesOneTerminalState ==
    /\ \A r \in Reqs : Validated(req[r]) ~> Terminal(r)
    /\ [][\A r \in Reqs : StaysTerminal(r)]_vars

C12_Witness ==
    \E r \in Reqs :
        /\ Validated(req[r])
        /\ Terminal(r)
        /\ Len(extractedFiles[r]) = 3
        /\ idx[r] = 1
        /\ response[r].error = "PublishError"

-----------------------------------------------------------------------------
(* Two deploy requests handled concurrently *)

ConcFields ==
    { [username |-> << <<"a">> >>, repoName |-> << <<"a">> >>],
      [username |-> << <<"a">>, <<"a">> >>, repoName |-> << <<"<", "a", ">", "a">> >>],
      [k \in {"repoName"} |-> << <<"a">> >>] }

ConcFiles ==
    { <<>>,
      [k \in {"file"} |-> << [valid |-> FALSE, entries |-> <<>>] >>],
      [k \in {"file"} |-> << [valid |-> TRUE, entries |->
            << [path |-> "dir/", dir |-> TRUE, content |-> ""],
               [path |-> "a.txt", dir |-> FALSE, content |-> "hello"] >>] >>],
      [k \in {"file"} |-> << [valid |-> TRUE, entries |->
            << [path |-> "a.txt", dir |-> FALSE, content |-> "hello"],
               [path |-> "dir/b.txt", dir |-> FALSE, content |-> "world"] >>] >>] }

\* The requests the two handlers are given: POST requests with these fields
\* and files, a request with another method, and one whose parse fails
ConcRequests ==
    [method : {"POST"}, parseOk : {TRUE}, fields : ConcFields, files : ConcFiles]
      \cup {[method |-> "GET", parseOk |-> TRUE, fields |-> <<>>, files |-> <<>>],
            [method |-> "POST", parseOk |-> FALSE, fields |-> <<>>, files |-> <<>>]}

InitConc ==
    /\ req \in [Reqs -> ConcRequests]
    /\ pc = [r \in Reqs |-> "received"]
    /\ sanitizedFields = [r \in Reqs |-> <<>>]
    /\ filePromises = [r \in Reqs |-> <<>>]
    /\ extr = [r \in Reqs |-> <<>>]
    /\ extractedFiles = [r \in Reqs |-> <<>>]
    /\ idx = [r \in Reqs |-> 0]
    /\ calls = [r \in Reqs |-> <<>>]
    /\ response = [r \in Reqs |-> NoResponse]
    /\ did = [r \in Reqs |-> {}]
    /\ remote = {}
    /\ InitSanOff
    /\ InitOthersOff

SpecConc == InitConc /\ [][Next]_vars

\* What the k-th call of a request carries, from the request alone
OwnCallArgs(q, k) ==
    [ op        |-> "createOrUpdateFileContents",
      owner     |-> Clean(q, "username"),
      repo      |-> Clean(q, "repoName"),
      path      |-> NonDirPaths(UploadedEntries(q))[k] ]

\* The response of a request, from its own fields and archive and from the
\* results of its own extractions (e) and remote calls (cs)
OwnResponse(q, e, cs) ==
    IF q.method # "POST"
        THEN [status |-> 405, body |-> "Metode tidak diizinkan", error |-> ""]
    ELSE IF \E key \in FieldKeys : key \notin DOMAIN q.fields \/ Clean(q, key) = <<>>
        THEN [status |-> 400, body |-> "Data tidak lengkap.", error |-> ""]
    ELSE IF ~HasFile(q)
        THEN [status |-> 500, body |-> "Kesalahan deployment: ", error |-> "TypeError"]
    ELSE IF InvalidBlob(q)
        THEN [status |-> 500, body |-> "Kesalahan deployment: ",
              error |-> "ArchiveFormatError"]
    ELSE IF \E k \in DOMAIN cs : cs[k].status = "failed"
        THEN [status |-> 500, body |-> "Kesalahan deployment: ", error |-> "PublishError"]
    ELSE IF \E i \in DOMAIN e : e[i] = "failed"
        THEN [status |-> 500, body |-> "Kesalahan deployment: ", error |-> "ExtractError"]
    ELSE [status |-> 200, body |-> "Proyek berhasil di-deploy!", error |-> ""]

\* The state the handler of r keeps
Local(r) ==
    <<pc[r], sanitizedFields[r], filePromises[r], extr[r], extractedFiles[r],
      idx[r], calls[r], response[r], did[r]>>

\* The calls and the response of each request follow from its own data
C13_OwnDataOnly ==
    \A r \in Reqs :
        /\ \A k \in DOMAIN calls[r] :
              /\ k <= Len(NonDirPaths(UploadedEntries(req[r])))
              /\ \A f \in {"op", "owner", "repo", "path"} :
                    calls[r][k].args[f] = OwnCallArgs(req[r], k)[f]
              /\ k < Len(calls[r]) => calls[r][k].status = "ok"
        /\ Answered(r) => response[r] = OwnResponse(req[r], extr[r], calls[r])
        /\ ~Answered(r) => response[r] = NoResponse

\* A step changes the state of one handler at most, and never the request
C13_OneHandlerPerStep ==
    /\ req' = req
    /\ \A r, o \in Reqs : (r # o /\ Local(r)' # Local(r)) => Local(o)' = Local(o)

\* C13: for two requests handled concurrently, under every interleaving,
\* the publish calls and the response of each are determined by its own
\* fields, its own archive and the results of its own extractions and
\* remote calls; no step of one handler writes the state of the other.
C13_RequestsIndependent == []C13_OwnDataOnly /\ [][C13_OneHandlerPerStep]_vars

C13_Witness ==
    /\ pc["r1"] = "awaiting"
    /\ pc["r2"] = "awaiting"
    /\ Len(calls["r1"]) = 2
    /\ calls["r1"][1].args.owner # calls["r2"][1].args.owner
    /\ req["r1"].files # req["r2"].files

-----------------------------------------------------------------------------
(* handleVisitorTracking, started by serveWebsite for every page request *)

IPs == {"ip1", "ip2"}

\* The page requests: x-forwarded-for may be absent ("")
Pages == [forwardedFor : IPs \cup {""}, remoteAddress : IPs]

\* request.headers.get('x-forwarded-for') || request.connection.remoteAddress
IpOf(page) ==
    IF page.forwardedFor # "" THEN page.forwardedFor ELSE page.remoteAddress

\* .eq('ip_address', ip).gte('timestamp', since)
Matching(rows, ip, since) == {row \in rows : row.ip = ip /\ row.day >= since}

InitVisitors ==
    /\ visitors = {}
    /\ today = 1
    /\ tReq \in [TReqs -> Pages]
    /\ tPc = [t \in TReqs |-> "received"]
    /\ tSince = [t \in TReqs |-> 0]
    /\ tRow = [t \in TReqs |-> <<>>]
    /\ InitBotOff
    /\ InitSanOff
    /\ req = [r \in Reqs |-> NoRequest]
    /\ pc = [r \in Reqs |-> "none"]
    /\ sanitizedFields = [r \in Reqs |-> <<>>]
    /\ filePromises = [r \in Reqs |-> <<>>]
    /\ extr = [r \in Reqs |-> <<>>]
    /\ extractedFiles = [r \in Reqs |-> <<>>]
    /\ idx = [r \in Reqs |-> 0]
    /\ calls = [r \in Reqs |-> <<>>]
    /\ response = [r \in Reqs |-> NoResponse]
    /\ did = [r \in Reqs |-> {}]
    /\ remote = {}

\* serveWebsite calls handleVisitorTracking without awaiting it; the lookup
\* is issued with today's date, new Date().toISOString().slice(0, 10)
TrackStart(t) ==
    /\ tPc[t] = "received"
    /\ tSince' = [tSince EXCEPT ![t] = today]
    /\ tPc' = [tPc EXCEPT ![t] = "selecting"]
    /\ UNCHANGED <<visitors, today, tReq, tRow, deployVars, sanVars, botVars>>

\* if (!data || data.length === 0): the insert is issued with the timestamp
\* new Date().toISOString() of that moment
AfterSelect(t, data) ==
    IF data = {}
    THEN /\ tRow' = [tRow EXCEPT ![t] = [ip |-> IpOf(tReq[t]), day |-> today]]
         /\ tPc' = [tPc EXCEPT ![t] = "inserting"]
    ELSE /\ tPc' = [tPc EXCEPT ![t] = "done"]
         /\ UNCHANGED tRow

\* The lookup answers with the rows of this IP since that date
SelectOk(t) ==
    /\ tPc[t] = "selecting"
    /\ AfterSelect(t, Matching(visitors, IpOf(tReq[t]), tSince[t]))
    /\ UNCHANGED <<visitors, today, tReq, tSince, deployVars, sanVars, botVars>>

\* The lookup fails: data is null, error is set and never looked at
SelectError(t) ==
    /\ tPc[t] = "selecting"
    /\ AfterSelect(t, {})
    /\ UNCHANGED <<visitors, today, tReq, tSince, deployVars, sanVars, botVars>>

\* The insert succeeds: the table holds one more row
InsertOk(t) ==
    /\ tPc[t] = "inserting"
    /\ visitors' = visitors \cup
          {[id |-> Cardinality(visitors) + 1, ip |-> tRow[t].ip, day |-> tRow[t].day]}
    /\ tPc' = [tPc EXCEPT ![t] = "done"]
    /\ UNCHANGED <<today, tReq, tSince, tRow, deployVars, sanVars, botVars>>

\* The insert fails: insertError is logged
InsertError(t) ==
    /\ tPc[t] = "inserting"
    /\ tPc' = [tPc EXCEPT ![t] = "done"]
    /\ UNCHANGED <<visitors, today, tReq, tSince, tRow, deployVars, sanVars, botVars>>

\* Midnight passes
Tick ==
    /\ today < MaxDay
    /\ today' = today + 1
    /\ UNCHANGED <<visitors, tReq, tPc, tSince, tRow, deployVars, sanVars, botVars>>

NextVisitors ==
    \/ Tick
    \/ \E t \in TReqs :
        \/ TrackStart(t)
        \/ SelectOk(t)
        \/ SelectError(t)
        \/ InsertOk(t)
        \/ InsertError(t)

SpecVisitors == InitVisitors /\ [][NextVisitors]_vars

RowsOf(ip, day) == {row \in visitors : row.ip = ip /\ row.day = day}

\* C14: the visitors table holds at most one row per source IP and calendar
\* day, whatever the sequence and interleaving of page requests, also when
\* two requests of one IP are tracked concurrently and when the lookup fails.
C14_OneRowPerIpAndDay ==
    \A ip \in IPs : \A day \in 1..MaxDay : Cardinality(RowsOf(ip, day)) <= 1

-----------------------------------------------------------------------------
(* The text-prompt proxy: handleBotRequest of index.js, reached through      *)
(* handleRequest for the path /api/bot-ai ("index"), and the handler that    *)
(* api/bot-ai.js exports ("standalone"), both given the same request        *)

BotMethods == {"POST", "GET", "PUT"}

\* The body: absent, not JSON, {} , {prompt: ""} or {prompt: "..."}
BotBodies == {"empty", "malformed", "noPrompt", "emptyPrompt", "textPrompt"}

\* A GET request carries no body
BotRequests ==
    {q \in [method : BotMethods, body : BotBodies, modelOk : BOOLEAN] :
        q.method = "GET" => q.body = "empty"}

InitBot ==
    /\ botReq \in BotRequests
    /\ botPc = [v \in Variants |-> "received"]
    /\ botResp = [v \in Variants |-> NoBotResponse]
    /\ botCalled = [v \in Variants |-> FALSE]
    /\ InitTrackOff
    /\ InitSanOff
    /\ req = [r \in Reqs |-> NoRequest]
    /\ pc = [r \in Reqs |-> "none"]
    /\ sanitizedFields = [r \in Reqs |-> <<>>]
    /\ filePromises = [r \in Reqs |-> <<>>]
    /\ extr = [r \in Reqs |-> <<>>]
    /\ extractedFiles = [r \in Reqs |-> <<>>]
    /\ idx = [r \in Reqs |-> 0]
    /\ calls = [r \in Reqs |-> <<>>]
    /\ response = [r \in Reqs |-> NoResponse]
    /\ did = [r \in Reqs |-> {}]
    /\ remote = {}

BotRespond(v, resp) ==
    /\ botResp' = [botResp EXCEPT ![v] = resp]
    /\ botPc' = [botPc EXCEPT ![v] = "responded"]

\* Only the standalone handler tests the method
ChecksMethod(v) == v = "standalone"

\* if (request.method !== 'POST') return new Response(..., {status: 405})
BotMethodNotAllowed(v) ==
    /\ botPc[v] = "received"
    /\ ChecksMethod(v)
    /\ botReq.method # "POST"
    /\ BotRespond(v, [status |-> 405, body |-> <<"text", "Metode tidak diizinkan">>])
    /\ UNCHANGED <<botReq, botCalled, deployVars, sanVars, trackVars>>

\* request.json() is called and awaited
BotBeginRead(v) ==
    /\ botPc[v] = "received"
    /\ ChecksMethod(v) => botReq.method = "POST"
    /\ botPc' = [botPc EXCEPT ![v] = "reading"]
    /\ UNCHANGED <<botReq, botResp, botCalled, deployVars, sanVars, trackVars>>

\* request.json() rejects (no body, or not JSON): the await is outside the
\* try block, so the handler's promise rejects without a Response
BotReadFail(v) ==
    /\ botPc[v] = "reading"
    /\ botReq.body \in {"empty", "malformed"}
    /\ botPc' = [botPc EXCEPT ![v] = "rejected"]
    /\ UNCHANGED <<botReq, botResp, botCalled, deployVars, sanVars, trackVars>>

\* const { prompt } = ...; if (!prompt) 400; else model.generateContent(prompt)
BotReadDone(v) ==
    /\ botPc[v] = "reading"
    /\ botReq.body \in {"noPrompt", "emptyPrompt", "textPrompt"}
    /\ IF botReq.body # "textPrompt"
       THEN /\ BotRespond(v, [status |-> 400,
                              body |-> <<"error", "Prompt tidak boleh kosong.">>])
            /\ UNCHANGED botCalled
       ELSE /\ botPc' = [botPc EXCEPT ![v] = "generating"]
            /\ botCalled' = [botCalled EXCEPT ![v] = TRUE]
            /\ UNCHANGED botResp
    /\ UNCHANGED <<botReq, deployVars, sanVars, trackVars>>

\* The model answers: new Response(JSON.stringify({ response: text })),
\* with the default status 200
BotModelOk(v) ==
    /\ botPc[v] = "generating"
    /\ botReq.modelOk
    /\ BotRespond(v, [status |-> 200, body |-> <<"response", "text">>])
    /\ UNCHANGED <<botReq, botCalled, deployVars, sanVars, trackVars>>

\* The model call throws: the catch block answers 500
BotModelFail(v) ==
    /\ botPc[v] = "generating"
    /\ ~botReq.modelOk
    /\ BotRespond(v, [status |-> 500,
                      body |-> <<"error", "Terjadi kesalahan saat menghubungi bot.">>])
    /\ UNCHANGED <<botReq, botCalled, deployVars, sanVars, trackVars>>

NextBot ==
    \E v \in Variants :
        \/ BotMethodNotAllowed(v)
        \/ BotBeginRead(v)
        \/ BotReadFail(v)
        \/ BotReadDone(v)
        \/ BotModelOk(v)
        \/ BotModelFail(v)

SpecBot == InitBot /\ [][NextBot]_vars

BotFinished(v) == botPc[v] \in {"responded", "rejected"}

\* C15: the two variants of the proxy give the same status and body for
\* every request and model outcome, whatever the method: 400 with an error
\* body and no model call for a missing or empty prompt, a {response} body
\* when the model succeeds, 500 with an error body when it fails.
C15_VariantsAgree ==
    (\A v \in Variants : BotFinished(v)) =>
        /\ botResp["index"] = botResp["standalone"]
        /\ botPc["index"] = botPc["standalone"]
        /\ botCalled["index"] = botCalled["standalone"]
        /\ \A v \in Variants :
              /\ botReq.body \in {"noPrompt", "emptyPrompt"} =>
                    /\ botResp[v].status = 400
                    /\ botResp[v].body[1] = "error"
                    /\ ~botCalled[v]
              /\ (botReq.body = "textPrompt" /\ botReq.modelOk) =>
                    botResp[v].body[1] = "response"
              /\ (botReq.body = "textPrompt" /\ ~botReq.modelOk) =>
                    /\ botResp[v].status = 500
                    /\ botResp[v].body[1] = "error"

====
